---- MODULE Spec2Model ----
(***************************************************************************)
(* A model of GoFlux's radix-tree router: node.addRoute (Insert) and       *)
(* node.getValue (Lookup) with the helpers findWildcard and                *)
(* longestCommonPrefix.  Strings are sequences of one-byte strings, a node *)
(* is a record with the fields of the Go struct, and a handler is a        *)
(* positive number (0 is the nil handler).                                 *)
(***************************************************************************)
EXTENDS Integers, Sequences, FiniteSets, TLC

VARIABLES tree, routes, calls, last, named

vars == <<tree, routes, calls, last, named>>

\* ------------------------------------------------------------------ types

\* nodeType constants, in the order of the const block.
static == 0
root == 1
param == 2
catchAll == 3

\* The nil HandlerFunc.
NilHandler == 0

\* A nil map[string]HandlerFunc, and the map make() returns.  A map is a set
\* of <<method, handler>> pairs with at most one pair per method.
NilMap == [isNil |-> TRUE, tab |-> {}]
MakeMap == [isNil |-> FALSE, tab |-> {}]

\* handlers[method] = handler
MapSet(h, method, handler) ==
  [isNil |-> FALSE,
   tab |-> {e \in h.tab : e[1] # method} \cup {<<method, handler>>}]

\* _, exists := handlers[method]
MapHas(h, method) == \E e \in h.tab : e[1] = method

\* handlers[method], the nil handler when the key is absent
MapGet(h, method) ==
  IF MapHas(h, method) THEN (CHOOSE e \in h.tab : e[1] = method)[2]
  ELSE NilHandler

\* &node{}: the zero value of the struct.
ZeroNode ==
  [path |-> <<>>, handlers |-> NilMap, nType |-> static,
   children |-> <<>>, wildChild |-> FALSE]

\* path[from:] with a 0-based offset, as Go slices.
Drop(s, k) == SubSeq(s, k + 1, Len(s))

\* path[:k]
Take(s, k) == SubSeq(s, 1, k)

\* ------------------------------------------------------------------ Params

\* ByName returning the value of the last parameter with the given name.
ByNameLast(ps, name) ==
  LET hits == {k \in 1..Len(ps) : ps[k].Key = name}
  IN IF hits = {} THEN <<>>
     ELSE ps[CHOOSE k \in hits : \A j \in hits : j <= k].Value

RECURSIVE byNameLoop(_, _, _)
\* The range loop of ByName from the i-th parameter on.
byNameLoop(ps, name, i) ==
  IF i > Len(ps) THEN <<>>
  ELSE IF ps[i].Key = name THEN ps[i].Value
  ELSE byNameLoop(ps, name, i + 1)

\* ByName returns the value of the first parameter with the given name
ByName(ps, name) == byNameLoop(ps, name, 1)

\* ---------------------------------------------------------------- helpers

\* min returns the smaller of two integers
min(a, b) == IF a < b THEN a ELSE b

RECURSIVE lcpLoop(_, _, _)
lcpLoop(a, b, i) ==
  IF i < min(Len(a), Len(b)) /\ a[i + 1] = b[i + 1]
  THEN lcpLoop(a, b, i + 1)
  ELSE i

\* longestCommonPrefix finds the length of the common prefix of two strings
longestCommonPrefix(a, b) == lcpLoop(a, b, 0)

\* findWildcard: the first wildcard token, the 0-based index where it starts
\* (-1 when there is none) and the validity flag, which the code sets to true
\* as soon as a marker byte is found.
findWildcard(path) ==
  LET marks == {k \in 1..Len(path) : path[k] \in {":", "*"}}
  IN IF marks = {}
     THEN [wildcard |-> <<>>, i |-> -1, valid |-> FALSE]
     ELSE LET start == CHOOSE k \in marks : \A j \in marks : k <= j
              ends == {k \in (start + 1)..Len(path) : path[k] = "/"}
              stop == IF ends = {} THEN Len(path) + 1
                      ELSE CHOOSE k \in ends : \A j \in ends : k <= j
          IN [wildcard |-> SubSeq(path, start, stop - 1),
              i |-> start - 1, valid |-> TRUE]

\* The kind of the node created for a wildcard token.
wildType(wildcard) == IF wildcard[1] = "*" THEN catchAll ELSE param

\* ---------------------------------------------------------------- addRoute

\* What an addRoute call leaves behind: the node as mutated in place, and
\* "ok" or the panic that ended the call.
Done(n) == [node |-> n, err |-> "ok"]
Panic(n, e) == [node |-> n, err |-> e]

\* A wildcard child holding the handler (the &node{...} literals for a
\* wildcard, with handlers made and the method set).
wildcardNode(wildcard, method, handler) ==
  [path |-> wildcard, handlers |-> MapSet(MakeMap, method, handler),
   nType |-> wildType(wildcard), children |-> <<>>, wildChild |-> FALSE]

\* emptyTree with the wildChild flag of the root forgotten.
emptyTreeNoFlag(n, path, method, handler) ==
  LET w == findWildcard(path)
      r == [n EXCEPT !.nType = root]
  IN IF w.i >= 0
     THEN IF ~w.valid
          THEN Panic(r, "MalformedPattern")
          ELSE IF w.i > 0
               THEN Done([r EXCEPT
                      !.path = Take(path, w.i),
                      !.children =
                        Append(r.children,
                               wildcardNode(w.wildcard, method, handler))])
               ELSE Done([r EXCEPT
                      !.path = w.wildcard,
                      !.nType = wildType(w.wildcard),
                      !.handlers = MapSet(MakeMap, method, handler)])
     ELSE Done([r EXCEPT
            !.path = path,
            !.handlers = MapSet(MakeMap, method, handler)])

\* The empty-tree branch of addRoute.
emptyTree(n, path, method, handler) ==
  LET w == findWildcard(path)
      r == [n EXCEPT !.nType = root]
  IN IF w.i >= 0
     THEN IF ~w.valid
          THEN Panic(r, "MalformedPattern")
          ELSE IF w.i > 0
               THEN Done([r EXCEPT
                      !.path = Take(path, w.i),
                      !.children =
                        Append(r.children,
                               wildcardNode(w.wildcard, method, handler)),
                      !.wildChild = TRUE])
               ELSE Done([r EXCEPT
                      !.path = w.wildcard,
                      !.nType = wildType(w.wildcard),
                      !.handlers = MapSet(MakeMap, method, handler)])
     ELSE Done([r EXCEPT
            !.path = path,
            !.handlers = MapSet(MakeMap, method, handler)])

\* Case 1: the paths match exactly, add the handler or panic on a duplicate.
exactMatch(n, method, handler) ==
  LET h == IF n.handlers.isNil THEN MakeMap ELSE n.handlers
  IN IF MapHas(h, method)
     THEN Panic([n EXCEPT !.handlers = h], "DuplicateRoute")
     ELSE Done([n EXCEPT !.handlers = MapSet(h, method, handler)])

\* The child a split creates: the tail of the node's path with the node's
\* handlers and children, of type static; its wildChild keeps the zero value.
splitChild(n, commonPrefix) ==
  [path |-> Drop(n.path, commonPrefix), handlers |-> n.handlers,
   children |-> n.children, nType |-> static, wildChild |-> FALSE]

\* splitPrefix with the node's handlers not handed to the new child.
splitPrefixDropsHandlers(n, path, commonPrefix, method, handler) ==
  Done([n EXCEPT
    !.path = path,
    !.children = <<[splitChild(n, commonPrefix) EXCEPT !.handlers = NilMap]>>,
    !.handlers = MapSet(MakeMap, method, handler)])

\* Case 2: the new path is a prefix of the node's path.
splitPrefix(n, path, commonPrefix, method, handler) ==
  Done([n EXCEPT
    !.path = path,
    !.children = <<splitChild(n, commonPrefix)>>,
    !.handlers = MapSet(MakeMap, method, handler)])

\* splitNode without "n.handlers = nil": the node keeps the handlers that
\* moved to the new child.
splitNodeKeepsHandlers(n, commonPrefix) ==
  [n EXCEPT
    !.path = Take(n.path, commonPrefix),
    !.children = <<splitChild(n, commonPrefix)>>]

\* Case 3: split the node at the common prefix, the node keeps no handlers.
splitNode(n, commonPrefix) ==
  [n EXCEPT
    !.path = Take(n.path, commonPrefix),
    !.children = <<splitChild(n, commonPrefix)>>,
    !.handlers = NilMap]

\* The new child for a remaining path that holds a wildcard token at offset
\* w.i: the wildcard child, below a static child when the token is not first.
newWildcardChild(n, remainingPath, w, method, handler) ==
  IF w.i > 0
  THEN LET rest == Drop(remainingPath, w.i)
           w2 == findWildcard(rest)
           staticChild ==
             [path |-> Take(remainingPath, w.i),
              handlers |-> NilMap, nType |-> static,
              children |-> <<wildcardNode(w2.wildcard, method, handler)>>,
              wildChild |-> TRUE]
       IN Done([n EXCEPT !.children = Append(n.children, staticChild)])
  ELSE Done([n EXCEPT
         !.children =
           Append(n.children, wildcardNode(w.wildcard, method, handler)),
         !.wildChild = TRUE])

\* The regular static child for a remaining path without wildcard.
staticLeaf(remainingPath, method, handler) ==
  [path |-> remainingPath, handlers |-> MapSet(MakeMap, method, handler),
   nType |-> static, children |-> <<>>, wildChild |-> FALSE]

\* newChild with the static child assigned as the only child instead of
\* appended.
newChildReplaces(n, remainingPath, method, handler) ==
  LET w == findWildcard(remainingPath)
  IN IF w.i >= 0
     THEN IF ~w.valid
          THEN Panic(n, "MalformedPattern")
          ELSE newWildcardChild(n, remainingPath, w, method, handler)
     ELSE Done([n EXCEPT
            !.children = <<staticLeaf(remainingPath, method, handler)>>])

\* No child matches the remaining path: create the child (or children) for it.
newChild(n, remainingPath, method, handler) ==
  LET w == findWildcard(remainingPath)
  IN IF w.i >= 0
     THEN IF ~w.valid
          THEN Panic(n, "MalformedPattern")
          ELSE newWildcardChild(n, remainingPath, w, method, handler)
     ELSE Done([n EXCEPT
            !.children =
              Append(n.children,
                     staticLeaf(remainingPath, method, handler))])

\* matchingChildren with the child's whole path compared to the remaining
\* path ("child.path == remainingPath") where the code compares first bytes.
matchingChildrenWholePath(n, remainingPath) ==
  {k \in 1..Len(n.children) : n.children[k].path = remainingPath}

\* matchingChildren over the static children only, so that a wildcard token
\* never meets the wildcard child that is there.
matchingChildrenStaticOnly(n, remainingPath) ==
  {k \in 1..Len(n.children) :
     /\ n.children[k].nType = static
     /\ n.children[k].path[1] = remainingPath[1]}

\* The children whose path starts with the byte the remaining path starts
\* with; the loop over n.children recurses into the first of them.
matchingChildren(n, remainingPath) ==
  {k \in 1..Len(n.children) : n.children[k].path[1] = remainingPath[1]}

RECURSIVE addRoute(_, _, _, _)
\* addRoute adds a new route to the tree
addRoute(n, path, method, handler) ==
  IF Len(n.path) = 0 /\ Len(n.children) = 0
  THEN emptyTree(n, path, method, handler)
  ELSE
  LET commonPrefix == longestCommonPrefix(path, n.path)
  IN IF commonPrefix = Len(n.path) /\ commonPrefix = Len(path)
     THEN exactMatch(n, method, handler)
     ELSE IF commonPrefix = Len(path) /\ commonPrefix < Len(n.path)
     THEN splitPrefix(n, path, commonPrefix, method, handler)
     ELSE
     LET n3 == IF commonPrefix < Len(n.path)
               THEN splitNode(n, commonPrefix) ELSE n
     IN IF commonPrefix < Len(path)
        THEN LET remainingPath == Drop(path, commonPrefix)
                 found == matchingChildren(n3, remainingPath)
             IN IF found # {}
                THEN LET k == CHOOSE c \in found : \A d \in found : c <= d
                         r == addRoute(n3.children[k], remainingPath,
                                       method, handler)
                     IN [node |-> [n3 EXCEPT !.children[k] = r.node],
                         err |-> r.err]
                ELSE newChild(n3, remainingPath, method, handler)
        ELSE Done(n3)

\* ---------------------------------------------------------------- getValue

\* A lookup's result: the handler (nil when not found) and the parameters.
\* "return nil, nil" gives the nil handler and no parameters.
NotFound == [handler |-> NilHandler, params |-> <<>>]

RECURSIVE paramEnd(_, _)
\* Find the end of the parameter value: the first '/' or the end of the path.
paramEnd(path, end) ==
  IF end < Len(path) /\ path[end + 1] # "/" THEN paramEnd(path, end + 1)
  ELSE end

\* A run-time panic of getValue: child.path[1:] on a child whose path is
\* empty is a slice out of range.
RuntimePanic == [handler |-> -1, params |-> <<>>]

\* resolve with "return nil, params" where the method has no handler.
resolveKeepsParams(n, method, params) ==
  IF MapHas(n.handlers, method)
  THEN [handler |-> MapGet(n.handlers, method), params |-> params]
  ELSE [handler |-> NilHandler, params |-> params]

\* The result at a node whose handlers decide: the handler of the method with
\* the parameters collected, or nil, nil.
resolve(n, method, params) ==
  IF MapHas(n.handlers, method)
  THEN [handler |-> MapGet(n.handlers, method), params |-> params]
  ELSE NotFound

\* wildChildren without the branch for parameter nodes: the wildChild loop
\* acts on catch-all children only.
wildChildrenCatchAllOnly(n) ==
  {k \in 1..Len(n.children) : n.children[k].nType = catchAll}

\* The wildcard children of a node, which its wildChild loop acts on.
wildChildren(n) ==
  {k \in 1..Len(n.children) : n.children[k].nType \in {param, catchAll}}

\* The static children the static scan accepts for the remaining path.
staticChildren(n, path) ==
  {k \in 1..Len(n.children) :
     /\ n.children[k].nType = static
     /\ Len(n.children[k].path) > 0
     /\ n.children[k].path[1] = path[1]}

\* The Param a parameter child appends: the child's path without the ':' and
\* the path up to the end of the value.
namedParam(child, path, end) ==
  [Key |-> Drop(child.path, 1), Value |-> Take(path, end)]

\* catchAllParam with the value cut at the first '/', as a parameter's is.
catchAllParamToSlash(child, path) ==
  [Key |-> Drop(child.path, 1), Value |-> Take(path, paramEnd(path, 0))]

\* The Param a catch-all child appends: the child's path without the '*' and
\* the rest of the path.
catchAllParam(child, path) == [Key |-> Drop(child.path, 1), Value |-> path]

RECURSIVE walk(_, _, _, _)
\* One iteration of the walk loop of getValue at node n, with the path still
\* to match and the parameters collected so far.
walk(n, path, method, params) ==
  IF Len(path) > Len(n.path) /\ Take(path, Len(n.path)) = n.path
  THEN LET rest == Drop(path, Len(n.path))
           wild == wildChildren(n)
           stat == staticChildren(n, rest)
       IN IF n.wildChild /\ wild # {}
          THEN LET child == n.children[CHOOSE c \in wild :
                                         \A d \in wild : c <= d]
               IN IF Len(child.path) = 0
                  THEN RuntimePanic
                  ELSE IF child.nType = param
                  THEN LET end == paramEnd(rest, 0)
                           ps == Append(params, namedParam(child, rest, end))
                       IN IF end < Len(rest)
                          THEN walk(child, Drop(rest, end), method, ps)
                          ELSE resolve(child, method, ps)
                  ELSE resolve(child, method,
                               Append(params, catchAllParam(child, rest)))
          ELSE IF stat # {}
          THEN walk(n.children[CHOOSE c \in stat : \A d \in stat : c <= d],
                    rest, method, params)
          ELSE NotFound
  ELSE IF path = n.path
  THEN resolve(n, method, params)
  ELSE NotFound

\* getValue searches the tree for a matching route
getValue(n, path, method) == walk(n, path, method, <<>>)

\* ------------------------------------------------------------------ inputs

\* The number of Insert calls of a behaviour.
MaxInserts == 2

\* The number of Insert calls of a behaviour that registers static paths only.
MaxStaticInserts == 3

\* HTTP methods, opaque keys of the handler maps: the ones routes are
\* registered with, and one more that requests may carry.
InsertMethods == {"GET", "POST"}
Methods == InsertMethods \cup {"DELETE"}

\* Static paths: a path and strict prefixes of it, paths that diverge right
\* after the leading '/', and a nested path.
StaticPaths ==
  { <<"/">>, <<"/", "a">>, <<"/", "a", "b">>, <<"/", "b">>,
    <<"/", "c">>, <<"/", "a", "/", "b">> }

\* Patterns with one well-formed wildcard token at the end.
WildcardPatterns ==
  { <<"/", ":", "a">>, <<"/", ":", "b">>, <<"/", "*", "a">>,
    <<"/", "a", "/", ":", "b">>, <<"/", "a", "/", "*", "b">> }

\* The number of Insert calls of a behaviour that mixes static paths and
\* wildcard patterns.
MaxMixedInserts == 3

\* Static paths that share and split prefixes, and wildcard patterns with
\* two names at one position, below '/' and below '/a/'.
MixedPatterns ==
  { <<"/", "a">>, <<"/", "a", "b">>, <<"/", "b">>,
    <<"/", ":", "a">>, <<"/", ":", "b">>, <<"/", "*", "a">>,
    <<"/", "*", "b">>, <<"/", "a", "/", ":", "b">>,
    <<"/", "a", "/", "*", "b">>, <<"/", "a", "/", "b">> }

\* The patterns with one method, and with a second method two static paths
\* that a parameter pattern matches as well.
MixedRoutes ==
  (MixedPatterns \X {"GET"})
    \cup {<<<<"/", "b">>, "POST">>, <<<<"/", "a", "/", "b">>, "POST">>}

\* Patterns that go on after their first wildcard token.
LongPatterns ==
  { <<"/", ":", "a", "/", "b">>, <<"/", ":", "a", "/", ":", "b">>,
    <<"/", "*", "a", "/", "b">> }

\* Patterns with an empty wildcard name or two markers in one token.
MalformedPatterns ==
  { <<"/", ":">>, <<"/", "*">>, <<"/", ":", "a", ":", "b">> }

Patterns ==
  {<<"/", "a">>, <<"/", "a", "b">>, <<"/", "b">>}
    \cup WildcardPatterns \cup LongPatterns \cup MalformedPatterns

\* Request paths: the empty path, concrete paths of one to three segments,
\* an empty segment, a trailing '/', and a pattern taken literally.
LookupPaths ==
  { <<>>, <<"/">>, <<"/", "a">>, <<"/", "b">>, <<"/", "c">>,
    <<"/", "a", "b">>, <<"/", "a", "/", "b">>, <<"/", "b", "/", "a">>,
    <<"/", "a", "/", "b", "/", "a">>, <<"/", "/">>, <<"/", "a", "/">>,
    <<"/", ":", "a">> }

\* The number of pairs of a Params value.
MaxParams == 3

\* Keys and values of the pairs, and the names asked for: the keys and one
\* name that is no key.
ParamKeys == { <<"a">>, <<"b">> }
ParamValues == { <<>>, <<"1">>, <<"2">> }
ParamNames == ParamKeys \cup { <<"c">> }

ParamSeqs ==
  UNION {[1..k -> [Key : ParamKeys, Value : ParamValues]] : k \in 0..MaxParams}

\* ------------------------------------------------------------- the machine

\* No ByName call made on the parameters ps.
NoByName(ps) == [ps |-> ps, name |-> <<>>, value |-> <<>>, called |-> FALSE]

\* tree := &node{}: no route, no call made.
Init ==
  /\ tree = ZeroNode
  /\ routes = <<>>
  /\ calls = 0
  /\ last = [op |-> "none", path |-> <<>>, method |-> "", err |-> "ok",
             handler |-> NilHandler, params |-> <<>>]
  /\ named = NoByName(<<>>)

\* tree.addRoute(path, method, handler) with a handler no earlier call gave.
\* A panic ends the call and leaves the tree as the call mutated it.
Insert(path, method) ==
  LET handler == calls + 1
      r == addRoute(tree, path, method, handler)
  IN /\ tree' = r.node
     /\ routes' = IF r.err = "ok"
                  THEN Append(routes, [path |-> path, method |-> method,
                                       handler |-> handler])
                  ELSE routes
     /\ calls' = calls + 1
     /\ last' = [op |-> "Insert", path |-> path, method |-> method,
                 err |-> r.err, handler |-> handler, params |-> <<>>]
     /\ UNCHANGED named

\* Lookup with a walk that descends by overwriting the root ("*n = *child")
\* where getValue reassigns its local pointer ("n = child").
LookupOverwritesRoot(path, method) ==
  LET r == getValue(tree, path, method)
  IN /\ last' = [op |-> "Lookup", path |-> <<>>, method |-> "",
                 err |-> "ok", handler |-> r.handler, params |-> r.params]
     /\ tree' = IF Len(path) > Len(tree.path) /\ Len(tree.children) > 0
                THEN tree.children[1]
                ELSE tree
     /\ UNCHANGED <<routes, calls, named>>

\* handler, params := tree.getValue(path, method); what the call returned is
\* what is kept of it.
Lookup(path, method) ==
  LET r == getValue(tree, path, method)
  IN /\ last' = [op |-> "Lookup", path |-> <<>>, method |-> "",
                 err |-> "ok", handler |-> r.handler, params |-> r.params]
     /\ UNCHANGED <<tree, routes, calls, named>>

InsertAny ==
  /\ calls < MaxInserts
  /\ \E path \in Patterns, method \in InsertMethods : Insert(path, method)

InsertStatic ==
  /\ calls < MaxStaticInserts
  /\ \E path \in StaticPaths, method \in InsertMethods : Insert(path, method)

InsertMixed ==
  /\ calls < MaxMixedInserts
  /\ \E r \in MixedRoutes : Insert(r[1], r[2])

LookupAny == \E path \in LookupPaths, method \in Methods : Lookup(path, method)

Next == InsertAny \/ LookupAny

NextStatic == InsertStatic \/ LookupAny

\* Routes of every kind.
Spec == Init /\ [][Next]_vars

\* Static routes only.
SpecStatic == Init /\ [][NextStatic]_vars

NextMixed == InsertMixed \/ LookupAny

\* Static and wildcard routes, fewer of them and one Insert more.
SpecMixed == Init /\ [][NextMixed]_vars

\* A Params value of up to MaxParams pairs, as a request may carry (keys can
\* repeat, a value can be empty), and no call made on it.
InitByName ==
  /\ tree = ZeroNode
  /\ routes = <<>>
  /\ calls = 0
  /\ last = [op |-> "none", path |-> <<>>, method |-> "", err |-> "ok",
             handler |-> NilHandler, params |-> <<>>]
  /\ named \in {NoByName(ps) : ps \in ParamSeqs}

\* value := ps.ByName(name)
ByNameCall(name) ==
  /\ named' = [ps |-> named.ps, name |-> name,
               value |-> ByName(named.ps, name), called |-> TRUE]
  /\ UNCHANGED <<tree, routes, calls, last>>

ByNameAny == \E name \in ParamNames : ByNameCall(name)

\* Params.ByName on its own.
SpecByName == InitByName /\ [][ByNameAny]_vars

\* ------------------------------------------------- what the claims speak of

\* Lookup(path, method) on the tree as it stands.
Found(path, method) == getValue(tree, path, method)

\* The route registered by the k-th successful Insert.
Route(k) == routes[k]

\* A token's end in a pattern: the offset of the first '/' at or after offset
\* k, or the pattern's length.
RECURSIVE TokenEnd(_, _)
TokenEnd(pattern, k) ==
  IF k < Len(pattern) /\ pattern[k + 1] # "/" THEN TokenEnd(pattern, k + 1)
  ELSE k

\* Whether a pattern matches the whole of a path: static bytes equal, a :name
\* token one non-empty run free of '/', a final *name token the whole
\* non-empty remainder.
RECURSIVE Matches(_, _)
Matches(pattern, path) ==
  IF pattern = <<>> THEN path = <<>>
  ELSE IF pattern[1] = ":"
  THEN \E n \in 1..TokenEnd(path, 0) :
         Matches(Drop(pattern, TokenEnd(pattern, 0)), Drop(path, n))
  ELSE IF pattern[1] = "*"
  THEN TokenEnd(pattern, 0) = Len(pattern) /\ path # <<>>
  ELSE path # <<>> /\ path[1] = pattern[1]
       /\ Matches(Tail(pattern), Tail(path))

\* A pattern with a wildcard token of empty name, or with a second marker
\* byte in one token.
Malformed(pattern) ==
  \E k \in 1..Len(pattern) :
    /\ pattern[k] \in {":", "*"}
    /\ \/ TokenEnd(pattern, k) = k
       \/ \E j \in (k + 1)..TokenEnd(pattern, k) : pattern[j] \in {":", "*"}

\* A pattern the router accepts by its contract: no malformed token, and a
\* catch-all token only as the last token.
WellFormed(pattern) ==
  /\ ~Malformed(pattern)
  /\ \A k \in 1..Len(pattern) :
       pattern[k] = "*" => TokenEnd(pattern, k) = Len(pattern)

\* Every registered pattern is well formed.
AllWellFormed == \A k \in 1..Len(routes) : WellFormed(routes[k].path)

\* The handlers held anywhere in a subtree.
RECURSIVE HandlersOf(_)
HandlersOf(n) ==
  {e[2] : e \in n.handlers.tab}
    \cup UNION {HandlersOf(n.children[k]) : k \in 1..Len(n.children)}

\* Values a parameter can take: non-empty and free of '/'.
Values == { <<"a">>, <<"b">>, <<"c">>, <<"a", "b">>, <<":">>, <<"*", "a">> }

\* Remainders a catch-all can take: non-empty, some with '/'.
Remainders ==
  Values \cup { <<"a", "/", "b">>, <<"/">>, <<"a", "/">>, <<"/", "a">>,
                <<"a", "/", "b", "/", "a">> }

\* Static prefixes that end in '/', and parameter names.
Prefixes == { <<"/">>, <<"/", "a", "/">> }
Names == { <<"a">>, <<"b">> }

\* Every path a claim looks up.
AllPaths ==
  LookupPaths \cup Patterns \cup StaticPaths
    \cup {s \o r : s \in Prefixes, r \in Remainders}

\* ------------------------------------------------------------------ claims

\* C1 (round-trip): after any sequence of successful Insert calls, for every
\* registered triple (p, m, h), Lookup(p, m) returns h.
C1_RoundTrip ==
  AllWellFormed =>
  \A k \in 1..Len(routes) :
    Found(Route(k).path, Route(k).method).handler = Route(k).handler

\* C2 (lookup soundness): Lookup(path, m) returns a handler h only if a
\* triple (p, m, h) was registered whose pattern p matches the whole of path;
\* otherwise the result is not-found.
C2_LookupSound ==
  AllWellFormed =>
  \A path \in AllPaths, m \in Methods :
    Found(path, m).handler # NilHandler =>
      \E k \in 1..Len(routes) :
        /\ Route(k).method = m
        /\ Route(k).handler = Found(path, m).handler
        /\ Matches(Route(k).path, path)

\* C3 (duplicate rejection): an Insert(p, m, h') whose (p, m) an earlier
\* successful Insert registered with h panics with DuplicateRoute and
\* Lookup(p, m) still returns h.
C3_DuplicateRejected ==
  AllWellFormed =>
  \A k \in 1..Len(routes) :
    ( /\ last.op = "Insert"
      /\ Route(k).path = last.path
      /\ Route(k).method = last.method
      /\ Route(k).handler # last.handler )
    => ( /\ last.err = "DuplicateRoute"
         /\ Found(last.path, last.method).handler = Route(k).handler )

\* C4 (malformed pattern): an Insert of a pattern with an empty wildcard name
\* or two markers in one token panics with MalformedPattern and registers no
\* handler.
C4_MalformedRejected ==
  (last.op = "Insert" /\ Malformed(last.path))
    => (last.err = "MalformedPattern" /\ last.handler \notin HandlersOf(tree))

\* C5 (multi-parameter ordering): with S1 :a S2 :b registered for m, Lookup of
\* S1 v1 S2 v2 with m returns the handler and exactly the parameters
\* (a, v1), (b, v2) in that order.
C5_TwoParamsInOrder ==
  \A s1 \in Prefixes, a \in Names, s2 \in {<<"/">>}, b \in Names :
    ( /\ Len(routes) = 1
      /\ Route(1).path = s1 \o <<":">> \o a \o s2 \o <<":">> \o b )
    => \A v1 \in Values, v2 \in Values :
         Found(s1 \o v1 \o s2 \o v2, Route(1).method) =
           [handler |-> Route(1).handler,
            params |-> <<[Key |-> a, Value |-> v1],
                         [Key |-> b, Value |-> v2]>>]

\* Only one pattern is registered, under one method or several.
OnePattern ==
  Len(routes) >= 1 /\ \A k \in 1..Len(routes) : Route(k).path = Route(1).path

\* C6 (parameter extraction): with S :name registered for m as the first
\* route of a tree, for every non-empty value v free of '/', Lookup(S v, m)
\* returns the handler and exactly one parameter, (name, v).
C6_ParamExtracted ==
  \A s \in Prefixes, name \in Names :
    (OnePattern /\ Route(1).path = s \o <<":">> \o name)
    => \A k \in 1..Len(routes), v \in Values :
         Found(s \o v, Route(k).method) =
           [handler |-> Route(k).handler,
            params |-> <<[Key |-> name, Value |-> v]>>]

\* C6's case: /a/:b is the only route and a Lookup returned its handler with
\* the one parameter (b, b).
C6_Witness ==
  /\ OnePattern
  /\ Route(1).path = <<"/", "a", "/", ":", "b">>
  /\ last.op = "Lookup"
  /\ last.handler = Route(1).handler
  /\ last.params = <<[Key |-> <<"b">>, Value |-> <<"b">>]>>

\* C7 (catch-all greediness): with S *name registered for m, for every
\* non-empty remainder r, also one with '/', Lookup(S r, m) returns the
\* handler and exactly one parameter, (name, r).
C7_CatchAllGreedy ==
  \A s \in Prefixes, name \in Names :
    (OnePattern /\ Route(1).path = s \o <<"*">> \o name)
    => \A k \in 1..Len(routes), r \in Remainders :
         Found(s \o r, Route(k).method) =
           [handler |-> Route(k).handler,
            params |-> <<[Key |-> name, Value |-> r]>>]

\* C7's case: /*a is the only route and a Lookup of /a/b returned its handler
\* with the one parameter (a, a/b).
C7_Witness ==
  /\ OnePattern
  /\ Route(1).path = <<"/", "*", "a">>
  /\ last.op = "Lookup"
  /\ last.handler = Route(1).handler
  /\ last.params = <<[Key |-> <<"a">>, Value |-> <<"a", "/", "b">>]>>

\* The methods registered for a pattern.
MethodsOf(pattern) ==
  {Route(k).method : k \in {j \in 1..Len(routes) : Route(j).path = pattern}}

\* C8 (method isolation): after Insert(p, m1, h1) and Insert(p, m2, h2) with
\* m1 # m2 both succeed, Lookup(p, m1) returns h1, Lookup(p, m2) returns h2
\* and Lookup(p, m3) returns not-found for every m3 never registered for p.
C8_MethodIsolation ==
  AllWellFormed =>
  \A i \in 1..Len(routes), j \in 1..Len(routes) :
    (Route(i).path = Route(j).path /\ Route(i).method # Route(j).method)
    => /\ Found(Route(i).path, Route(i).method).handler = Route(i).handler
       /\ Found(Route(j).path, Route(j).method).handler = Route(j).handler
       /\ \A m3 \in Methods \ MethodsOf(Route(i).path) :
            Found(Route(i).path, m3).handler = NilHandler

\* p is a strict prefix of q.
StrictPrefix(p, q) == Len(p) < Len(q) /\ Take(q, Len(p)) = p

\* C9 (prefix splitting): for static p a strict prefix of static q, in either
\* order, Lookup(p, m) returns hp and Lookup(q, m) returns hq and neither
\* returns the other's handler; when q is registered first, the root's
\* segment becomes p and its single child carries the tail of q with q's
\* handlers.
C9_PrefixSplit ==
  /\ \A i \in 1..Len(routes), j \in 1..Len(routes) :
       StrictPrefix(Route(i).path, Route(j).path)
       => /\ Found(Route(i).path, Route(i).method).handler = Route(i).handler
          /\ Found(Route(j).path, Route(j).method).handler = Route(j).handler
          /\ \A m \in Methods :
               /\ Found(Route(i).path, m).handler # Route(j).handler
               /\ Found(Route(j).path, m).handler # Route(i).handler
  /\ (Len(routes) = 2 /\ StrictPrefix(Route(2).path, Route(1).path))
     => /\ tree.path = Route(2).path
        /\ Len(tree.children) = 1
        /\ tree.children[1].path = Drop(Route(1).path, Len(Route(2).path))
        /\ tree.children[1].handlers.tab =
             {<<Route(1).method, Route(1).handler>>}
        /\ tree.handlers.tab = {<<Route(2).method, Route(2).handler>>}

\* C9's case: /ab was registered, then /a split its node, and a Lookup
\* returned the handler of /ab.
C9_Witness ==
  /\ Len(routes) = 2
  /\ Route(1).path = <<"/", "a", "b">>
  /\ Route(2).path = <<"/", "a">>
  /\ Len(tree.children) = 1
  /\ last.op = "Lookup"
  /\ last.handler = Route(1).handler

\* The registered paths differ pairwise right after the leading '/'.
Diverging ==
  \A i \in 1..Len(routes), j \in 1..Len(routes) :
    /\ Len(Route(i).path) >= 2
    /\ i # j => Route(i).path[2] # Route(j).path[2]

\* C10 (disjoint branching): static paths that diverge right after the
\* leading '/', registered in any order, are all lookupable and each returns
\* its own handler, after every insertion; and whatever static route is
\* added, every static route registered earlier still returns its handler.
C10_DisjointBranching ==
  /\ Diverging =>
       \A k \in 1..Len(routes), m \in Methods :
         Found(Route(k).path, m).handler =
           IF m = Route(k).method THEN Route(k).handler ELSE NilHandler
  /\ \A k \in 1..Len(routes) :
       Route(k).handler \in HandlersOf(tree)
         /\ Found(Route(k).path, Route(k).method).handler = Route(k).handler

\* C10's case: three routes that diverge after '/' share the root, and a
\* Lookup returned the handler of the first.
C10_Witness ==
  /\ Len(routes) = 3
  /\ Diverging
  /\ Len(tree.children) = 3
  /\ last.op = "Lookup"
  /\ last.handler = Route(1).handler

\* A pattern whose catch-all token is followed by further path.
CatchAllNotFinal(pattern) ==
  \E k \in 1..Len(pattern) :
    pattern[k] = "*" /\ TokenEnd(pattern, k) < Len(pattern)

\* C11 (catch-all must be final): an Insert of a pattern whose *name token is
\* followed by further path panics with MalformedPattern, on an empty tree
\* and on a tree that holds the catch-all route, and registers no handler.
C11_CatchAllFinal ==
  (last.op = "Insert" /\ CatchAllNotFinal(last.path))
    => (last.err = "MalformedPattern" /\ last.handler \notin HandlersOf(tree))

C13_LookupTotal ==
  last.op = "Lookup" =>
    LET r == [handler |-> last.handler, params |-> last.params]
    IN /\ r # RuntimePanic
       /\ r.handler = NilHandler => r = NotFound
       /\ r.handler # NilHandler => r.handler \in HandlersOf(tree)
       /\ \A path \in LookupPaths, method \in Methods :
            Found(path, method) # RuntimePanic

\* C13's case: with a parameter route registered, a Lookup whose path
\* matched and whose method has no handler returned not-found.
C13_Witness ==
  /\ Len(routes) = 1
  /\ Route(1).path = <<"/", "a", "/", ":", "b">>
  /\ Route(1).method = "GET"
  /\ last.op = "Lookup"
  /\ last.handler = NilHandler
  /\ last.params = <<>>
  /\ Found(<<"/", "a", "/", "b">>, "GET").handler = Route(1).handler
  /\ Found(<<"/", "a", "/", "b">>, "DELETE") = NotFound
  /\ Found(<<>>, "GET") = NotFound
  /\ Found(<<"/", "a", "/">>, "GET") = NotFound

\* C14 (parameter lookup by name): ByName(name) returns the value of the
\* first pair whose key equals name, so the first occurrence wins when a key
\* repeats, and the empty string when no pair has that key.
C14_ByNameFirst ==
  named.called =>
    LET hits == {k \in 1..Len(named.ps) : named.ps[k].Key = named.name}
    IN /\ hits = {} => named.value = <<>>
       /\ \A k \in hits :
            (\A j \in hits : k <= j) => named.value = named.ps[k].Value

\* C14's case: a key occurs twice with different values and ByName returned
\* the first value.
C14_Witness ==
  /\ named.called
  /\ Len(named.ps) = 3
  /\ named.ps[1].Key # named.name
  /\ named.ps[2].Key = named.name
  /\ named.ps[3].Key = named.name
  /\ named.ps[2].Value = <<"2">>
  /\ named.ps[3].Value = <<"1">>
  /\ named.value = <<"2">>

\* The nodes of a subtree.
RECURSIVE NodesOf(_)
NodesOf(n) ==
  {n} \cup UNION {NodesOf(n.children[k]) : k \in 1..Len(n.children)}

\* The children of a node that are of kind t.
ChildrenOfKind(n, t) == {k \in 1..Len(n.children) : n.children[k].nType = t}

\* C15 (hasWildcardChild): for every node, wildChild is true iff the node
\* has a child of kind param or catch-all, also after an Insert that split
\* a node (Case 2, Case 3).
C15_WildChildFlag ==
  AllWellFormed =>
  \A n \in NodesOf(tree) :
    n.wildChild <=>
      (ChildrenOfKind(n, param) \cup ChildrenOfKind(n, catchAll) # {})

\* A path without a wildcard marker.
Static(path) == \A k \in 1..Len(path) : path[k] \notin {":", "*"}

\* C16 (wildcard routes survive splits): a successful Insert of a static
\* route keeps every route lookupable that was lookupable before it: a
\* Lookup that returned a handler returns the same handler and parameters
\* afterwards, for every path but the one inserted.
C16_SplitKeepsRoutes ==
  [][( /\ calls' = calls + 1
       /\ last'.err = "ok"
       /\ Static(last'.path)
       /\ \A k \in 1..Len(routes) : WellFormed(Route(k).path) )
     => \A path \in LookupPaths \ {last'.path}, method \in Methods :
          getValue(tree, path, method).handler # NilHandler
            => getValue(tree', path, method) = getValue(tree, path, method)
    ]_vars

\* A segment made of the marker and a name that is non-empty and free of '/'.
WildcardSegment(path, marker) ==
  /\ Len(path) >= 2
  /\ path[1] = marker
  /\ \A k \in 2..Len(path) : path[k] # "/"

\* C17 (wildcard node shape): the segment of every param node is ':' and a
\* name, the segment of every catch-all node is '*' and a name, the name
\* non-empty and free of '/', also after a second wildcard pattern with
\* another name at the same position.
C17_WildcardShape ==
  AllWellFormed =>
  \A n \in NodesOf(tree) :
    /\ n.nType = param => WildcardSegment(n.path, ":")
    /\ n.nType = catchAll => WildcardSegment(n.path, "*")

\* C18 (catch-all nodes are leaves): no node of kind catch-all has a child,
\* also after an Insert whose pattern extends a registered catch-all pattern
\* (/*a then /*a/b).
C18_CatchAllLeaf ==
  (\A k \in 1..Len(routes) : ~Malformed(Route(k).path)) =>
  \A n \in NodesOf(tree) : n.nType = catchAll => Len(n.children) = 0

\* C19 (compression): after any sequence of Insert calls no node has two
\* static children whose segments start with the same byte, and no child
\* has an empty segment.
C19_Compression ==
  \A n \in NodesOf(tree) :
    /\ \A i \in ChildrenOfKind(n, static), j \in ChildrenOfKind(n, static) :
         i # j => n.children[i].path[1] # n.children[j].path[1]
    /\ \A k \in 1..Len(n.children) : Len(n.children[k].path) > 0

\* C19's case: /ab and /b share the root "/", and the Insert of /a split the
\* child "ab" where a second child starting with 'a' could have been added.
C19_Witness ==
  /\ Len(routes) = 3
  /\ Route(1).path = <<"/", "a", "b">>
  /\ Route(2).path = <<"/", "b">>
  /\ Route(3).path = <<"/", "a">>
  /\ last.op = "Insert"
  /\ Len(tree.children) = 2
  /\ tree.children[1].path = <<"a">>
  /\ Len(tree.children[1].children) = 1

\* C20 (one wildcard child per kind): every node has at most one child of
\* kind param and at most one child of kind catch-all, also after patterns
\* with different parameter names at one position.
C20_OneWildcardPerKind ==
  \A n \in NodesOf(tree) :
    /\ Cardinality(ChildrenOfKind(n, param)) <= 1
    /\ Cardinality(ChildrenOfKind(n, catchAll)) <= 1

\* C20's case: /:a, /:b and /*a were registered at one position, and the
\* root has one child of each wildcard kind.
C20_Witness ==
  /\ Len(routes) = 3
  /\ Route(1).path = <<"/", ":", "a">>
  /\ Route(2).path = <<"/", ":", "b">>
  /\ Route(3).path = <<"/", "*", "a">>
  /\ last.op = "Insert"
  /\ Cardinality(ChildrenOfKind(tree, param)) = 1
  /\ Cardinality(ChildrenOfKind(tree, catchAll)) = 1

\* The nodes a walk arrives at through static segments only: the root and
\* the static nodes.
BranchNodes == {n \in NodesOf(tree) : n.nType \in {static, root}}

\* The static children of n whose segment the remaining path starts with.
StaticMatches(n, rest) ==
  {k \in ChildrenOfKind(n, static) :
     /\ Len(n.children[k].path) <= Len(rest)
     /\ Take(rest, Len(n.children[k].path)) = n.children[k].path}

\* The walk that arrives at n with rest left beyond n's segment takes the
\* parameter child c: it returns a handler of c's branch with the parameter
\* of c bound first, or not-found with no parameters.
TakesParamChild(n, c, rest, method) ==
  LET r == walk(n, n.path \o rest, method, <<>>)
  IN /\ r.handler \in HandlersOf(c) \cup {NilHandler}
     /\ r.handler = NilHandler => r = NotFound
     /\ r.handler # NilHandler =>
          /\ r.params # <<>>
          /\ r.params[1] = [Key |-> Drop(c.path, 1),
                            Value |-> Take(rest, TokenEnd(rest, 0))]

\* C21 as stated (wildcard precedence without backtracking): at a node with
\* wildChild true, a parameter child and a static child able to match the
\* remaining path, Lookup takes the parameter child and never the static
\* child, also when the parameter branch holds no handler for the method.
C21_ParamBeforeStatic ==
  \A n \in BranchNodes, rest \in Remainders, method \in Methods :
    ( /\ n.wildChild
      /\ ChildrenOfKind(n, param) # {}
      /\ StaticMatches(n, rest) # {} )
    => \A k \in ChildrenOfKind(n, param) :
         TakesParamChild(n, n.children[k], rest, method)

\* C21 amended: the same, at a node where no catch-all child stands before
\* the parameter child in the order of the children.
C21_ParamBeforeStaticNoCatchAllFirst ==
  \A n \in BranchNodes, rest \in Remainders, method \in Methods :
    ( /\ n.wildChild
      /\ ChildrenOfKind(n, param) # {}
      /\ StaticMatches(n, rest) # {} )
    => \A k \in ChildrenOfKind(n, param) :
         (\A j \in ChildrenOfKind(n, catchAll) : k < j)
           => TakesParamChild(n, n.children[k], rest, method)

\* C21's case: /a/b was registered for POST and /a/:b for GET, in this
\* order; a Lookup returned the handler of /a/:b with the parameter (b, b),
\* and Lookup of /a/b with POST is not-found although /a/b holds POST.
C21_Witness ==
  /\ Len(routes) = 2
  /\ Route(1).path = <<"/", "a", "/", "b">>
  /\ Route(1).method = "POST"
  /\ Route(2).path = <<"/", "a", "/", ":", "b">>
  /\ Route(2).method = "GET"
  /\ tree.wildChild
  /\ StaticMatches(tree, <<"b">>) # {}
  /\ last.op = "Lookup"
  /\ last.handler = Route(2).handler
  /\ last.params = <<[Key |-> <<"b">>, Value |-> <<"b">>]>>
  /\ Found(<<"/", "a", "/", "b">>, "GET").handler = Route(2).handler
  /\ Found(<<"/", "a", "/", "b">>, "POST") = NotFound
  /\ MapHas(tree.children[1].handlers, "POST")

\* The orders in which n routes can be inserted.
Orders(n) ==
  {f \in [1..n -> 1..n] : \A i \in 1..n, j \in 1..n : f[i] = f[j] => i = j}

\* The tree after the first k Inserts of the registered routes taken in the
\* given order into an empty tree, each with its own handler, and "ok" or
\* the first panic.
RECURSIVE Rebuilt(_, _)
Rebuilt(order, k) ==
  IF k = 0 THEN Done(ZeroNode)
  ELSE LET prev == Rebuilt(order, k - 1)
           rt == Route(order[k])
           r == addRoute(prev.node, rt.path, rt.method, rt.handler)
       IN [node |-> r.node, err |-> IF prev.err = "ok" THEN r.err ELSE prev.err]

\* A subtree up to the order of children: the segment, the handlers and the
\* set of the children's subtrees.
RECURSIVE Shape(_)
Shape(n) ==
  [path |-> n.path, handlers |-> n.handlers.tab,
   children |-> {Shape(n.children[k]) : k \in 1..Len(n.children)}]

\* C22 (insertion-order independence for static routes): for the static
\* routes registered, with distinct (path, method), every order of the
\* Insert calls succeeds and gives a tree with the same Lookup result for
\* every path and method, and the same segments and parent-child structure
\* up to the order of children.
C22_OrderIndependent ==
  last.op = "Insert" =>
    \A order \in Orders(Len(routes)) :
      LET t == Rebuilt(order, Len(routes))
      IN /\ t.err = "ok"
         /\ Shape(t.node) = Shape(tree)
         /\ \A path \in LookupPaths \cup StaticPaths, method \in Methods :
              getValue(t.node, path, method) = Found(path, method)

\* C22's case: /a/b, /ab and / were registered; the orders go through the
\* split of Case 3 and that of Case 2, or through new children only, and
\* the tree is "/" over "a" over "/b" and "b".
C22_Witness ==
  /\ Len(routes) = 3
  /\ Route(1).path = <<"/", "a", "/", "b">>
  /\ Route(2).path = <<"/", "a", "b">>
  /\ Route(3).path = <<"/">>
  /\ last.op = "Insert"
  /\ tree.path = <<"/">>
  /\ Len(tree.children) = 1
  /\ tree.children[1].path = <<"a">>
  /\ Len(tree.children[1].children) = 2

====
